---- MODULE Spec2Model ----
(***************************************************************************)
(* Identity reconciliation service (src/src/identityService.ts).           *)
(*                                                                         *)
(* The store is the "contacts" table.  Every `await prisma.contact...`     *)
(* call of identifyContact is one atomic step of the request that issues   *)
(* it; the synchronous code that follows a call, up to the next call, runs *)
(* in the same step.  Spec issues the requests one after another.  SpecConc *)
(* lets two requests interleave their store operations in every order; it  *)
(* draws the requests from ConcEmails x ConcPhones and lets the clock tick  *)
(* between writes, so each of its behaviours is a behaviour of the service. *)
(* SpecFail lets any store call of a serial request reject; SpecTomb lets   *)
(* another writer soft-delete rows between serial requests.  SpecDecide     *)
(* applies shouldCreateSecondary to every family and request; SpecFamilies  *)
(* and SpecLinks run the reads of a request on every table of flat          *)
(* families and on every table with arbitrary links.                        *)
(***************************************************************************)
EXTENDS Integers, Sequences, FiniteSets, TLC

\* ------------------------------------------------------------------ bounds
\* Rows the contacts table can hold; a create on a full table fails.
MaxContacts == 3
\* Times a request may be issued while another is in flight (SpecConc).
MaxOverlaps == 1
\* Members of a family handed to shouldCreateSecondary (SpecDecide).
MaxFamily == 3
\* Rows of a table handed to the traversal on its own (SpecFamilies, SpecLinks).
MaxRows == 3

\* ------------------------------------------------------------------ values
Undefined == "undefined"
Null == "null"
NoLink == 0
EmailValues == {"e1", "e2"}
PhoneValues == {"p1", "p2"}
\* req.body fields: absent, empty or a value; the handler rejects a body in
\* which neither is truthy and passes every other one on.
InputEmails == EmailValues \cup {Undefined, ""}
InputPhones == PhoneValues \cup {Undefined, ""}
ConcEmails == {"e1", "e2", Undefined}
ConcPhones == {"p1", Undefined}
Procs == {1, 2}
SerialProcs == {1}
NoContact == [id |-> 0]
NoResponse == [kind |-> "none"]
ErrorResponse == [kind |-> "error"]

VARIABLES
    store,            \* the contacts table: store[i] is the row with id i
    pc,               \* pc[p]: where request slot p stands
    req,              \* req[p]: the (email, phoneNumber) of the request
    toProcess,        \* getAllRelatedContacts: the work stack
    processed,        \* getAllRelatedContacts: ids already handled
    contactIds,       \* getAllRelatedContacts: ids collected
    allRelatedContacts,
    primaries,
    oldestPrimary,
    otherPrimaries,   \* mergePrimaries: the primaries still to demote
    family,           \* family / updatedFamily
    response,         \* what the request returned
    store0,           \* the table as it was when the request began
    prev,             \* the previous response, when the request repeats it
    overlaps          \* how many times a request was issued beside another

vars == <<store, pc, req, toProcess, processed, contactIds, allRelatedContacts,
          primaries, oldestPrimary, otherPrimaries, family, response, store0, prev,
          overlaps>>

locals == <<toProcess, processed, contactIds, allRelatedContacts,
            primaries, oldestPrimary, otherPrimaries, family>>

\* ------------------------------------------------------------------ helpers
\* JavaScript truthiness of an optional string.
Truthy(v) == v \notin {Undefined, Null, ""}

Range(s) == {s[i] : i \in 1..Len(s)}

Rows(st) == Range(st)

Live(st) == {c \in Rows(st) : ~c.deletedAt}

\* orderBy: { createdAt: 'asc' }: every order of the rows the key allows.
OrderByCreatedAt(S) ==
    {s \in [1..Cardinality(S) -> S] :
        /\ \A i, j \in 1..Cardinality(S) : i # j => s[i] # s[j]
        /\ \A i, j \in 1..Cardinality(S) : i < j => s[i].createdAt <= s[j].createdAt}

\* A findMany without orderBy: the rows in any order.
AnyOrder(S) ==
    {s \in [1..Cardinality(S) -> S] :
        \A i, j \in 1..Cardinality(S) : i # j => s[i] # s[j]}

\* The where clause of the match query.
MatchWhere(c, email, phoneNumber) ==
    /\ \/ Truthy(email) /\ c.email = email
       \/ Truthy(phoneNumber) /\ c.phoneNumber = phoneNumber
    /\ ~c.deletedAt

\* FindUnique looking the id up in the wrong column.
FindUniqueByLink(st, id) == {c \in Rows(st) : c.linkedId = id}

\* prisma.contact.findUnique({ where: { id } }): the row, as a set of at most one.
FindUnique(st, id) == {c \in Rows(st) : c.id = id}

\* The current time of a write: not before any timestamp in the table.
MaxCreatedAt(st) ==
    IF Len(st) = 0 THEN 1
    ELSE CHOOSE t \in {st[i].createdAt : i \in 1..Len(st)} :
            \A i \in 1..Len(st) : st[i].createdAt <= t

Now(st) == IF Len(st) = 0 THEN {1} ELSE {MaxCreatedAt(st), MaxCreatedAt(st) + 1}

\* NewContact dropping the phone number of the request.
NewContactNoPhone(st, email, phoneNumber, linkedId, linkPrecedence, now) ==
    [id |-> Len(st) + 1,
     email |-> IF email = Undefined THEN Null ELSE email,
     phoneNumber |-> Null,
     linkedId |-> linkedId,
     linkPrecedence |-> linkPrecedence,
     createdAt |-> now,
     deletedAt |-> FALSE]

\* NewContact leaving the new row unlinked.
NewContactUnlinked(st, email, phoneNumber, linkedId, linkPrecedence, now) ==
    [id |-> Len(st) + 1,
     email |-> IF email = Undefined THEN Null ELSE email,
     phoneNumber |-> IF phoneNumber = Undefined THEN Null ELSE phoneNumber,
     linkedId |-> NoLink,
     linkPrecedence |-> linkPrecedence,
     createdAt |-> now,
     deletedAt |-> FALSE]

\* prisma.contact.create: the row the table assigns.
NewContact(st, email, phoneNumber, linkedId, linkPrecedence, now) ==
    [id |-> Len(st) + 1,
     email |-> IF email = Undefined THEN Null ELSE email,
     phoneNumber |-> IF phoneNumber = Undefined THEN Null ELSE phoneNumber,
     linkedId |-> linkedId,
     linkPrecedence |-> linkPrecedence,
     createdAt |-> now,
     deletedAt |-> FALSE]

\* Array.prototype.sort with the createdAt comparator: a stable insertion.
RECURSIVE InsertByCreatedAt(_, _)
InsertByCreatedAt(s, c) ==
    IF s = <<>> THEN <<c>>
    ELSE IF s[Len(s)].createdAt <= c.createdAt THEN Append(s, c)
    ELSE Append(InsertByCreatedAt(SubSeq(s, 1, Len(s) - 1), c), s[Len(s)])

RECURSIVE SortByCreatedAt(_)
SortByCreatedAt(s) ==
    IF s = <<>> THEN <<>>
    ELSE InsertByCreatedAt(SortByCreatedAt(SubSeq(s, 1, Len(s) - 1)), s[Len(s)])

IsPrimary(c) == c.linkPrecedence = "primary"
IsSecondary(c) == c.linkPrecedence = "secondary"

\* Map.set keeps the first insertion position of a key.
RECURSIVE DedupById(_)
DedupById(s) ==
    IF s = <<>> THEN <<>>
    ELSE LET init == DedupById(SubSeq(s, 1, Len(s) - 1))
             last == s[Len(s)]
         IN  IF \E i \in 1..Len(init) : init[i].id = last.id
             THEN [i \in 1..Len(init) |->
                     IF init[i].id = last.id THEN last ELSE init[i]]
             ELSE Append(init, last)

getUniquePrimaries(contacts) ==
    SortByCreatedAt(DedupById(SelectSeq(contacts, IsPrimary)))

\* shouldCreateSecondary comparing both fields whether supplied or not.
shouldCreateSecondaryUnguarded(fam, email, phoneNumber) ==
    LET exactMatch == \E i \in 1..Len(fam) :
                        fam[i].email = email /\ fam[i].phoneNumber = phoneNumber
        hasEmail == \E i \in 1..Len(fam) : fam[i].email = email
        hasPhone == \E i \in 1..Len(fam) : fam[i].phoneNumber = phoneNumber
    IN  IF exactMatch THEN FALSE ELSE ~hasEmail \/ ~hasPhone

\* shouldCreateSecondary stopping at the exact-match test.
shouldCreateSecondaryUnlessExact(fam, email, phoneNumber) ==
    ~\E i \in 1..Len(fam) : fam[i].email = email /\ fam[i].phoneNumber = phoneNumber

\* shouldCreateSecondary asking for both values to be new.
shouldCreateSecondaryBothNew(fam, email, phoneNumber) ==
    LET exactMatch == \E i \in 1..Len(fam) :
                        fam[i].email = email /\ fam[i].phoneNumber = phoneNumber
        hasEmail == \E i \in 1..Len(fam) : fam[i].email = email
        hasPhone == \E i \in 1..Len(fam) : fam[i].phoneNumber = phoneNumber
    IN  IF exactMatch THEN FALSE
        ELSE IF Truthy(email) /\ Truthy(phoneNumber) THEN ~hasEmail /\ ~hasPhone
        ELSE IF Truthy(email) /\ ~hasEmail THEN TRUE
        ELSE IF Truthy(phoneNumber) /\ ~hasPhone THEN TRUE
        ELSE FALSE

shouldCreateSecondary(fam, email, phoneNumber) ==
    LET exactMatch == \E i \in 1..Len(fam) :
                        fam[i].email = email /\ fam[i].phoneNumber = phoneNumber
        hasEmail == \E i \in 1..Len(fam) : fam[i].email = email
        hasPhone == \E i \in 1..Len(fam) : fam[i].phoneNumber = phoneNumber
    IN  IF exactMatch THEN FALSE
        ELSE IF Truthy(email) /\ Truthy(phoneNumber) THEN ~hasEmail \/ ~hasPhone
        ELSE IF Truthy(email) /\ ~hasEmail THEN TRUE
        ELSE IF Truthy(phoneNumber) /\ ~hasPhone THEN TRUE
        ELSE FALSE

\* ReduceOldest with the comparison turned round.
RECURSIVE ReduceNewest(_)
ReduceNewest(ps) ==
    IF Len(ps) = 1 THEN ps[1]
    ELSE LET oldest == ReduceNewest(SubSeq(ps, 1, Len(ps) - 1))
             current == ps[Len(ps)]
         IN  IF current.createdAt > oldest.createdAt THEN current ELSE oldest

\* primaries.reduce((oldest, current) => current.createdAt < oldest.createdAt ? ...)
RECURSIVE ReduceOldest(_)
ReduceOldest(ps) ==
    IF Len(ps) = 1 THEN ps[1]
    ELSE LET oldest == ReduceOldest(SubSeq(ps, 1, Len(ps) - 1))
             current == ps[Len(ps)]
         IN  IF current.createdAt < oldest.createdAt THEN current ELSE oldest

\* CollectUnique without the includes test.
RECURSIVE CollectAll(_, _, _)
CollectAll(acc, secondaries, field) ==
    IF secondaries = <<>> THEN acc
    ELSE LET v == Head(secondaries)[field]
         IN  CollectAll(IF Truthy(v) THEN Append(acc, v) ELSE acc,
                        Tail(secondaries), field)

\* emails / phoneNumbers of buildResponse: the primary's value, then each
\* secondary's value not yet included.
RECURSIVE CollectUnique(_, _, _)
CollectUnique(acc, secondaries, field) ==
    IF secondaries = <<>> THEN acc
    ELSE LET v == Head(secondaries)[field]
         IN  CollectUnique(
                 IF Truthy(v) /\ v \notin Range(acc) THEN Append(acc, v) ELSE acc,
                 Tail(secondaries), field)

SecondaryIds(secondaries) == [i \in 1..Len(secondaries) |-> secondaries[i].id]

buildResponse(contacts) ==
    LET prims == SelectSeq(contacts, IsPrimary)
        secondaries == SelectSeq(contacts, IsSecondary)
    IN  IF prims = <<>> THEN ErrorResponse
        ELSE LET primary == prims[1] IN
             [kind |-> "ok",
              primaryContactId |-> primary.id,
              emails |-> CollectUnique(
                  IF Truthy(primary.email) THEN <<primary.email>> ELSE <<>>,
                  secondaries, "email"),
              phoneNumbers |-> CollectUnique(
                  IF Truthy(primary.phoneNumber) THEN <<primary.phoneNumber>> ELSE <<>>,
                  secondaries, "phoneNumber"),
              secondaryContactIds |-> SecondaryIds(secondaries)]

\* ------------------------------------------------------------------ state
Init ==
    /\ store = <<>>
    /\ pc = [p \in Procs |-> "idle"]
    /\ req = [p \in Procs |-> [email |-> Undefined, phoneNumber |-> Undefined]]
    /\ toProcess = [p \in Procs |-> <<>>]
    /\ processed = [p \in Procs |-> {}]
    /\ contactIds = [p \in Procs |-> {}]
    /\ allRelatedContacts = [p \in Procs |-> <<>>]
    /\ primaries = [p \in Procs |-> <<>>]
    /\ oldestPrimary = [p \in Procs |-> NoContact]
    /\ otherPrimaries = [p \in Procs |-> <<>>]
    /\ family = [p \in Procs |-> <<>>]
    /\ response = [p \in Procs |-> NoResponse]
    /\ store0 = [p \in Procs |-> <<>>]
    /\ prev = [p \in Procs |-> NoResponse]
    /\ overlaps = 0

Resting(p) == pc[p] \in {"idle", "done", "failed"}

\* POST /identify: the validation of the handler, then the call.  The
\* records kept of requests that have returned are dropped when a new
\* request is issued.
Begin(p, email, phoneNumber) ==
    /\ Resting(p)
    /\ Truthy(email) \/ Truthy(phoneNumber)
    /\ req' = [q \in Procs |->
                 IF q = p THEN [email |-> email, phoneNumber |-> phoneNumber]
                 ELSE IF Resting(q) THEN [email |-> Undefined, phoneNumber |-> Undefined]
                 ELSE req[q]]
    /\ prev' = [q \in Procs |->
                  IF q = p
                  THEN IF pc[p] = "done" /\ req[p].email = email
                          /\ req[p].phoneNumber = phoneNumber
                       THEN response[p] ELSE NoResponse
                  ELSE IF Resting(q) THEN NoResponse ELSE prev[q]]
    /\ store0' = [q \in Procs |->
                    IF q = p THEN store ELSE IF Resting(q) THEN <<>> ELSE store0[q]]
    /\ response' = [q \in Procs |->
                      IF q = p \/ Resting(q) THEN NoResponse ELSE response[q]]
    /\ pc' = [q \in Procs |->
                IF q = p THEN "match" ELSE IF Resting(q) THEN "idle" ELSE pc[q]]
    /\ UNCHANGED <<store, locals>>

\* A request issued while no other request is in flight.
StartSerial(p) ==
    /\ p \in SerialProcs
    /\ \A q \in Procs : Resting(q)
    /\ \E email \in InputEmails, phoneNumber \in InputPhones :
          Begin(p, email, phoneNumber)
    /\ UNCHANGED overlaps

\* A request issued while another may be in flight.  A request touches the
\* store first in Match, so requests that overlap are issued before either
\* has read: every interleaving of their store operations follows.
StartConcurrent(p) ==
    /\ \A q \in Procs \ {p} : Resting(q) \/ pc[q] = "match"
    /\ IF \A q \in Procs : Resting(q)
       THEN UNCHANGED overlaps
       ELSE overlaps < MaxOverlaps /\ overlaps' = overlaps + 1
    /\ \E email \in ConcEmails, phoneNumber \in ConcPhones :
          Begin(p, email, phoneNumber)

\* Step 1: findMany of the matching contacts; an empty match set makes
\* getAllRelatedContacts return [] at once.
Match(p) ==
    /\ UNCHANGED overlaps
    /\ pc[p] = "match"
    /\ \E matches \in OrderByCreatedAt(
            {c \in Rows(store) : MatchWhere(c, req[p].email, req[p].phoneNumber)}) :
          IF matches = <<>>
          THEN /\ pc' = [pc EXCEPT ![p] = "createPrimary"]
               /\ UNCHANGED toProcess
          ELSE /\ pc' = [pc EXCEPT ![p] = "expand"]
               /\ toProcess' = [toProcess EXCEPT ![p] = matches]
    /\ UNCHANGED <<store, req, processed, contactIds, allRelatedContacts, primaries,
                   oldestPrimary, otherPrimaries, family, response, store0, prev>>

\* Expand never consulting the processed set.
ExpandUnchecked(p) ==
    /\ UNCHANGED overlaps
    /\ pc[p] = "expand"
    /\ toProcess[p] # <<>>
    /\ LET contact == toProcess[p][Len(toProcess[p])]
           rest == SubSeq(toProcess[p], 1, Len(toProcess[p]) - 1)
           found == IF contact.linkedId # NoLink
                    THEN FindUnique(store, contact.linkedId) ELSE {}
           children == IF IsPrimary(contact)
                       THEN {c \in Live(store) : c.linkedId = contact.id}
                       ELSE {}
       IN  \E primary \in AnyOrder(found), secondaries \in AnyOrder(children) :
             LET next == rest \o primary \o secondaries
             IN  /\ toProcess' = [toProcess EXCEPT ![p] = next]
                 /\ processed' = [processed EXCEPT ![p] = @ \cup {contact.id}]
                 /\ contactIds' = [contactIds EXCEPT ![p] = @ \cup {contact.id}]
                 /\ pc' = [pc EXCEPT ![p] = IF next = <<>> THEN "fetch" ELSE "expand"]
    /\ UNCHANGED <<store, req, allRelatedContacts, primaries, oldestPrimary,
                   otherPrimaries, family, response, store0, prev>>

\* Expand without the findMany of a primary's secondaries.
ExpandNoSecondaries(p) ==
    /\ UNCHANGED overlaps
    /\ pc[p] = "expand"
    /\ toProcess[p] # <<>>
    /\ LET contact == toProcess[p][Len(toProcess[p])]
           rest == SubSeq(toProcess[p], 1, Len(toProcess[p]) - 1)
       IN  IF contact.id \in processed[p]
           THEN /\ toProcess' = [toProcess EXCEPT ![p] = rest]
                /\ pc' = [pc EXCEPT ![p] = IF rest = <<>> THEN "fetch" ELSE "expand"]
                /\ UNCHANGED <<processed, contactIds>>
           ELSE LET done == processed[p] \cup {contact.id}
                    NotDone(c) == c.id \notin done
                    found == IF contact.linkedId # NoLink
                             THEN FindUnique(store, contact.linkedId) ELSE {}
                IN  \E primary \in AnyOrder(found) :
                      LET next == rest \o SelectSeq(primary, NotDone)
                      IN  /\ toProcess' = [toProcess EXCEPT ![p] = next]
                          /\ processed' = [processed EXCEPT ![p] = done]
                          /\ contactIds' = [contactIds EXCEPT ![p] = @ \cup {contact.id}]
                          /\ pc' = [pc EXCEPT ![p] =
                                      IF next = <<>> THEN "fetch" ELSE "expand"]
    /\ UNCHANGED <<store, req, allRelatedContacts, primaries, oldestPrimary,
                   otherPrimaries, family, response, store0, prev>>

\* One iteration of the while loop of getAllRelatedContacts.
Expand(p) ==
    /\ UNCHANGED overlaps
    /\ pc[p] = "expand"
    /\ toProcess[p] # <<>>
    /\ LET contact == toProcess[p][Len(toProcess[p])]
           rest == SubSeq(toProcess[p], 1, Len(toProcess[p]) - 1)
       IN  IF contact.id \in processed[p]
           THEN /\ toProcess' = [toProcess EXCEPT ![p] = rest]
                /\ pc' = [pc EXCEPT ![p] = IF rest = <<>> THEN "fetch" ELSE "expand"]
                /\ UNCHANGED <<processed, contactIds>>
           ELSE LET done == processed[p] \cup {contact.id}
                    NotDone(c) == c.id \notin done
                    found == IF contact.linkedId # NoLink
                             THEN FindUnique(store, contact.linkedId) ELSE {}
                    children == IF IsPrimary(contact)
                                THEN {c \in Live(store) : c.linkedId = contact.id}
                                ELSE {}
                IN  \E primary \in AnyOrder(found), secondaries \in AnyOrder(children) :
                      LET next == rest \o SelectSeq(primary, NotDone)
                                       \o SelectSeq(secondaries, NotDone)
                      IN  /\ toProcess' = [toProcess EXCEPT ![p] = next]
                          /\ processed' = [processed EXCEPT ![p] = done]
                          /\ contactIds' = [contactIds EXCEPT ![p] = @ \cup {contact.id}]
                          /\ pc' = [pc EXCEPT ![p] =
                                      IF next = <<>> THEN "fetch" ELSE "expand"]
    /\ UNCHANGED <<store, req, allRelatedContacts, primaries, oldestPrimary,
                   otherPrimaries, family, response, store0, prev>>

\* The locals of a request die when it returns or throws.
Forget(p) ==
    /\ toProcess' = [toProcess EXCEPT ![p] = <<>>]
    /\ processed' = [processed EXCEPT ![p] = {}]
    /\ contactIds' = [contactIds EXCEPT ![p] = {}]
    /\ allRelatedContacts' = [allRelatedContacts EXCEPT ![p] = <<>>]
    /\ primaries' = [primaries EXCEPT ![p] = <<>>]
    /\ oldestPrimary' = [oldestPrimary EXCEPT ![p] = NoContact]
    /\ otherPrimaries' = [otherPrimaries EXCEPT ![p] = <<>>]
    /\ family' = [family EXCEPT ![p] = <<>>]

\* return buildResponse(contacts): a family without a primary throws.
Return(p, fam) ==
    LET out == buildResponse(fam)
    IN  /\ response' = [response EXCEPT ![p] = out]
        /\ pc' = [pc EXCEPT ![p] = IF out = ErrorResponse THEN "failed" ELSE "done"]
        /\ Forget(p)

\* The family of the single primary found (identifyContact, one family).
FamilyOf(primary, contacts) ==
    LET InFamily(c) == c.id = primary.id \/ c.linkedId = primary.id
    IN  SelectSeq(contacts, InFamily)

\* mergePrimaries: the primaries other than the oldest.
OtherPrimaries(prims, oldest) ==
    LET Other(c) == c.id # oldest.id
    IN  SelectSeq(prims, Other)

\* The final findMany of getAllRelatedContacts, then steps 3 and 4 of
\* identifyContact up to the next store call.
Fetch(p) ==
    /\ UNCHANGED overlaps
    /\ pc[p] = "fetch"
    /\ \E all \in OrderByCreatedAt({c \in Live(store) : c.id \in contactIds[p]}) :
          LET prims == getUniquePrimaries(all)
              fam == FamilyOf(prims[1], all)
              oldest == ReduceOldest(prims)
          IN  IF Len(prims) = 0
              THEN /\ pc' = [pc EXCEPT ![p] = "createPrimary"]
                   /\ allRelatedContacts' = [allRelatedContacts EXCEPT ![p] = all]
                   /\ primaries' = [primaries EXCEPT ![p] = prims]
                   /\ UNCHANGED <<toProcess, processed, contactIds, oldestPrimary,
                                  otherPrimaries, family, response>>
              ELSE IF Len(prims) = 1
              THEN IF shouldCreateSecondary(fam, req[p].email, req[p].phoneNumber)
                   THEN /\ pc' = [pc EXCEPT ![p] = "createSecondary"]
                        /\ allRelatedContacts' = [allRelatedContacts EXCEPT ![p] = all]
                        /\ primaries' = [primaries EXCEPT ![p] = prims]
                        /\ family' = [family EXCEPT ![p] = fam]
                        /\ UNCHANGED <<toProcess, processed, contactIds,
                                       oldestPrimary, otherPrimaries, response>>
                   ELSE Return(p, fam)
              ELSE /\ pc' = [pc EXCEPT ![p] = "demote"]
                   /\ allRelatedContacts' = [allRelatedContacts EXCEPT ![p] = all]
                   /\ primaries' = [primaries EXCEPT ![p] = prims]
                   /\ oldestPrimary' = [oldestPrimary EXCEPT ![p] = oldest]
                   /\ otherPrimaries' =
                         [otherPrimaries EXCEPT ![p] = OtherPrimaries(prims, oldest)]
                   /\ UNCHANGED <<toProcess, processed, contactIds, family, response>>
    /\ UNCHANGED <<store, req, store0, prev>>

\* prisma.contact.create at its three call sites, then family.push and
\* return buildResponse(family).  On a full table the create throws and the
\* request fails.  The call site of mergePrimaries is reached only when
\* the merged family lacks one of the request's identifiers.
Create(p) ==
    /\ UNCHANGED overlaps
    /\ pc[p] \in {"createPrimary", "createSecondary", "mergeCreate"}
    /\ LET linkedId == IF pc[p] = "createPrimary" THEN NoLink
                       ELSE IF pc[p] = "createSecondary" THEN primaries[p][1].id
                       ELSE oldestPrimary[p].id
           linkPrecedence == IF pc[p] = "createPrimary" THEN "primary"
                             ELSE "secondary"
           fam == IF pc[p] = "createPrimary" THEN <<>> ELSE family[p]
       IN  IF Len(store) >= MaxContacts
           THEN /\ pc' = [pc EXCEPT ![p] = "failed"]
                /\ response' = [response EXCEPT ![p] = ErrorResponse]
                /\ Forget(p)
                /\ UNCHANGED store
           ELSE \E now \in Now(store) :
                  LET new == NewContact(store, req[p].email, req[p].phoneNumber,
                                        linkedId, linkPrecedence, now)
                  IN  /\ store' = Append(store, new)
                      /\ Return(p, Append(fam, new))
    /\ UNCHANGED <<req, store0, prev>>

\* Demote setting the link and leaving the precedence.
DemoteLinkOnly(p) ==
    /\ UNCHANGED overlaps
    /\ pc[p] = "demote"
    /\ LET primary == Head(otherPrimaries[p])
       IN  store' = [store EXCEPT ![primary.id] =
                       [@ EXCEPT !.linkedId = oldestPrimary[p].id]]
    /\ pc' = [pc EXCEPT ![p] = "repoint"]
    /\ UNCHANGED <<req, locals, response, store0, prev>>

\* mergePrimaries: update of the next other primary.
Demote(p) ==
    /\ UNCHANGED overlaps
    /\ pc[p] = "demote"
    /\ LET primary == Head(otherPrimaries[p])
       IN  store' = [store EXCEPT ![primary.id] =
                       [@ EXCEPT !.linkedId = oldestPrimary[p].id,
                                 !.linkPrecedence = "secondary"]]
    /\ pc' = [pc EXCEPT ![p] = "repoint"]
    /\ UNCHANGED <<req, locals, response, store0, prev>>

\* Repoint without the updateMany.
RepointNone(p) ==
    /\ UNCHANGED overlaps
    /\ pc[p] = "repoint"
    /\ otherPrimaries' = [otherPrimaries EXCEPT ![p] = Tail(@)]
    /\ pc' = [pc EXCEPT ![p] =
                IF Tail(otherPrimaries[p]) = <<>> THEN "refetch" ELSE "demote"]
    /\ UNCHANGED <<store, req, toProcess, processed, contactIds, allRelatedContacts,
                   primaries, oldestPrimary, family, response, store0, prev>>

\* mergePrimaries: updateMany of that primary's children.
Repoint(p) ==
    /\ UNCHANGED overlaps
    /\ pc[p] = "repoint"
    /\ LET primary == Head(otherPrimaries[p])
       IN  store' = [i \in 1..Len(store) |->
                       IF store[i].linkedId = primary.id
                       THEN [store[i] EXCEPT !.linkedId = oldestPrimary[p].id]
                       ELSE store[i]]
    /\ otherPrimaries' = [otherPrimaries EXCEPT ![p] = Tail(@)]
    /\ pc' = [pc EXCEPT ![p] =
                IF Tail(otherPrimaries[p]) = <<>> THEN "refetch" ELSE "demote"]
    /\ UNCHANGED <<req, toProcess, processed, contactIds, allRelatedContacts,
                   primaries, oldestPrimary, family, response, store0, prev>>

\* mergePrimaries: findMany of the updated family, and the decision on it.
Refetch(p) ==
    /\ UNCHANGED overlaps
    /\ pc[p] = "refetch"
    /\ \E updatedFamily \in OrderByCreatedAt(
            {c \in Live(store) : \/ c.id = oldestPrimary[p].id
                                 \/ c.linkedId = oldestPrimary[p].id}) :
          IF shouldCreateSecondary(updatedFamily, req[p].email, req[p].phoneNumber)
          THEN /\ family' = [family EXCEPT ![p] = updatedFamily]
               /\ pc' = [pc EXCEPT ![p] = "mergeCreate"]
               /\ UNCHANGED <<response, toProcess, processed, contactIds,
                              allRelatedContacts, primaries, oldestPrimary,
                              otherPrimaries>>
          ELSE Return(p, updatedFamily)
    /\ UNCHANGED <<store, req, store0, prev>>

Step(p) ==
    \/ Match(p)
    \/ Expand(p)
    \/ Fetch(p)
    \/ Create(p)
    \/ Demote(p)
    \/ Repoint(p)
    \/ Refetch(p)

Next == \E p \in Procs : StartSerial(p) \/ Step(p)

Spec == Init /\ [][Next]_vars

\* The clock ticked between any two creates.
ClockTicked(st) == \A i, j \in 1..Len(st) : i < j => st[i].createdAt < st[j].createdAt

\* Create when the clock has ticked since the last create.
CreateLater(p) == Create(p) /\ ClockTicked(store')

NextConc ==
    \E p \in Procs :
        \/ StartConcurrent(p)
        \/ Match(p)
        \/ Expand(p)
        \/ Fetch(p)
        \/ CreateLater(p)
        \/ Demote(p)
        \/ Repoint(p)
        \/ Refetch(p)

SpecConc == Init /\ [][NextConc]_vars

\* A store call rejects: identifyContact catches nothing, the handler
\* answers 500.  No call is wrapped in a transaction, so the writes the
\* request made before stay in the table.
Fail(p) ==
    /\ UNCHANGED overlaps
    /\ ~Resting(p)
    /\ pc' = [pc EXCEPT ![p] = "failed"]
    /\ response' = [response EXCEPT ![p] = ErrorResponse]
    /\ Forget(p)
    /\ UNCHANGED <<store, req, store0, prev>>

\* Requests issued one after another, any store call of which may reject.
NextFail ==
    \E p \in SerialProcs :
        \/ StartConcurrent(p)
        \/ Match(p)
        \/ Expand(p)
        \/ Fetch(p)
        \/ Create(p)
        \/ Demote(p)
        \/ Repoint(p)
        \/ Refetch(p)
        \/ Fail(p)

SpecFail == Init /\ [][NextFail]_vars

\* A soft delete of row i by another writer of the table, between two
\* requests: identifyContact never sets deletedAt and filters on it.  The
\* records kept of the requests that have returned are dropped.
Tombstone(i) ==
    /\ \A q \in Procs : Resting(q)
    /\ ~store[i].deletedAt
    /\ store' = [store EXCEPT ![i] = [@ EXCEPT !.deletedAt = TRUE]]
    /\ pc' = [q \in Procs |-> "idle"]
    /\ req' = [q \in Procs |-> [email |-> Undefined, phoneNumber |-> Undefined]]
    /\ response' = [q \in Procs |-> NoResponse]
    /\ store0' = [q \in Procs |-> <<>>]
    /\ prev' = [q \in Procs |-> NoResponse]
    /\ UNCHANGED <<locals, overlaps>>

\* Requests issued one after another on a table in which rows get
\* soft-deleted.
NextTomb ==
    \/ \E p \in SerialProcs :
          \/ StartConcurrent(p)
          \/ Match(p)
          \/ Expand(p)
          \/ Fetch(p)
          \/ Create(p)
          \/ Demote(p)
          \/ Repoint(p)
          \/ Refetch(p)
    \/ \E i \in 1..Len(store) : Tombstone(i)

SpecTomb == Init /\ [][NextTomb]_vars

\* The values a stored email or phone number takes: NULL, or what a
\* request carried.
StoredEmails == EmailValues \cup {Null, ""}
StoredPhones == PhoneValues \cup {Null, ""}

\* The (email, phoneNumber) pairs of the rows of a family; a create stores
\* a row only for a request with a truthy field.
MemberPairs ==
    {m \in StoredEmails \X StoredPhones : Truthy(m[1]) \/ Truthy(m[2])}

\* A family with the given pairs: a primary and its secondaries.
FamilyOfPairs(f) ==
    [i \in 1..Len(f) |->
        [id |-> i,
         email |-> f[i][1],
         phoneNumber |-> f[i][2],
         linkedId |-> IF i = 1 THEN NoLink ELSE 1,
         linkPrecedence |-> IF i = 1 THEN "primary" ELSE "secondary",
         createdAt |-> i,
         deletedAt |-> FALSE]]

\* shouldCreateSecondary on its own: any family of up to MaxFamily members
\* and any request the handler passes on.
InitDecide ==
    /\ store = <<>>
    /\ \E n \in 1..MaxFamily : \E f \in [1..n -> MemberPairs] :
          family = [p \in Procs |-> IF p \in SerialProcs THEN FamilyOfPairs(f) ELSE <<>>]
    /\ \E email \in InputEmails, phoneNumber \in InputPhones :
          /\ Truthy(email) \/ Truthy(phoneNumber)
          /\ req = [p \in Procs |->
                      IF p \in SerialProcs
                      THEN [email |-> email, phoneNumber |-> phoneNumber]
                      ELSE [email |-> Undefined, phoneNumber |-> Undefined]]
    /\ pc = [p \in Procs |-> IF p \in SerialProcs THEN "decide" ELSE "idle"]
    /\ toProcess = [p \in Procs |-> <<>>]
    /\ processed = [p \in Procs |-> {}]
    /\ contactIds = [p \in Procs |-> {}]
    /\ allRelatedContacts = [p \in Procs |-> <<>>]
    /\ primaries = [p \in Procs |-> <<>>]
    /\ oldestPrimary = [p \in Procs |-> NoContact]
    /\ otherPrimaries = [p \in Procs |-> <<>>]
    /\ response = [p \in Procs |-> NoResponse]
    /\ store0 = [p \in Procs |-> <<>>]
    /\ prev = [p \in Procs |-> NoResponse]
    /\ overlaps = 0

\* const needsNewSecondary = shouldCreateSecondary(family, email, phoneNumber)
Decide(p) ==
    /\ pc[p] = "decide"
    /\ response' = [response EXCEPT ![p] =
          [kind |-> "decision",
           needsNewSecondary |->
               shouldCreateSecondary(family[p], req[p].email, req[p].phoneNumber)]]
    /\ pc' = [pc EXCEPT ![p] = "decided"]
    /\ UNCHANGED <<store, req, locals, store0, prev, overlaps>>

NextDecide == \E p \in SerialProcs : Decide(p)

SpecDecide == InitDecide /\ [][NextDecide]_vars

\* A row of a table given to the traversal: its email decides whether it
\* is a seed, its link and precedence where the traversal goes from it.
TableRow(i, email, linkedId, linkPrecedence, deletedAt) ==
    [id |-> i,
     email |-> email,
     phoneNumber |-> Null,
     linkedId |-> linkedId,
     linkPrecedence |-> linkPrecedence,
     createdAt |-> 1,
     deletedAt |-> deletedAt]

\* Every live secondary is linked to a live primary and no primary is linked.
WellFormed(st) ==
    \A i \in 1..Len(st) :
        ~st[i].deletedAt =>
            IF IsPrimary(st[i]) THEN st[i].linkedId = NoLink
            ELSE /\ st[i].linkedId \in 1..Len(st)
                 /\ IsPrimary(st[st[i].linkedId])
                 /\ ~st[st[i].linkedId].deletedAt

\* The fields of a row of a table of n rows whose precedence follows from
\* its link: live or soft-deleted, unlinked or linked to any row.
FamilyShapes(n) == [email : EmailValues, linkedId : 0..n, deletedAt : BOOLEAN]

\* The table with the given fields: a row is primary if and only if it is
\* unlinked.
FamilyTable(n, f) ==
    [i \in 1..n |->
        TableRow(i, f[i].email, f[i].linkedId,
                 IF f[i].linkedId = NoLink THEN "primary" ELSE "secondary",
                 f[i].deletedAt)]

\* The fields of a live row of a table of n rows with any link: to itself,
\* in a cycle, to a secondary, from a primary.
LinkShapes(n) ==
    [email : EmailValues, linkedId : 0..n, linkPrecedence : {"primary", "secondary"}]

LinkTable(n, f) ==
    [i \in 1..n |->
        TableRow(i, f[i].email, f[i].linkedId, f[i].linkPrecedence, FALSE)]

\* identifyContact called with the given email on table st.
InitOn(st, email) ==
    /\ store = st
    /\ req = [p \in Procs |->
                IF p \in SerialProcs
                THEN [email |-> email, phoneNumber |-> Undefined]
                ELSE [email |-> Undefined, phoneNumber |-> Undefined]]
    /\ pc = [p \in Procs |-> IF p \in SerialProcs THEN "match" ELSE "idle"]
    /\ store0 = [p \in Procs |-> IF p \in SerialProcs THEN st ELSE <<>>]
    /\ toProcess = [p \in Procs |-> <<>>]
    /\ processed = [p \in Procs |-> {}]
    /\ contactIds = [p \in Procs |-> {}]
    /\ allRelatedContacts = [p \in Procs |-> <<>>]
    /\ primaries = [p \in Procs |-> <<>>]
    /\ oldestPrimary = [p \in Procs |-> NoContact]
    /\ otherPrimaries = [p \in Procs |-> <<>>]
    /\ family = [p \in Procs |-> <<>>]
    /\ response = [p \in Procs |-> NoResponse]
    /\ prev = [p \in Procs |-> NoResponse]
    /\ overlaps = 0

\* Any table of up to MaxRows rows whose live rows form flat families.
InitFamilies ==
    \E n \in 1..MaxRows : \E f \in [1..n -> FamilyShapes(n)] :
        /\ WellFormed(FamilyTable(n, f))
        /\ \E email \in EmailValues : InitOn(FamilyTable(n, f), email)

\* Any table of up to MaxRows live rows, whatever their links.  The
\* rows that carry the email of the request are the seeds, the rows that
\* carry the other email are not: every set of seeds occurs.
InitLinks ==
    \E n \in 1..MaxRows : \E f \in [1..n -> LinkShapes(n)] :
        InitOn(LinkTable(n, f), "e1")

\* Steps 1 to 3 of identifyContact: the reads, up to the first write.
NextResolve == \E p \in SerialProcs : Match(p) \/ Expand(p) \/ Fetch(p)

SpecFamilies == InitFamilies /\ [][NextResolve]_vars

\* getAllRelatedContacts: the match and the while loop.
NextTraverse == \E p \in SerialProcs : Match(p) \/ Expand(p)

SpecLinks == InitLinks /\ [][NextTraverse]_vars

\* ------------------------------------------------------------------ claims
AllResting == \A p \in Procs : Resting(p)

\* The request of slot p returned a response.
Returned(p) == pc[p] = "done"

\* The stored form of an optional input.
Stored(v) == IF v = Undefined THEN Null ELSE v

\* The id of the primary a row belongs to, by its own fields.
PrimaryOf(c) == IF c.linkedId = NoLink THEN c.id ELSE c.linkedId

\* The rows of the family whose primary has id r.
FamilyRows(st, r) == {c \in Live(st) : c.id = r \/ c.linkedId = r}

\* The families a request's identifiers touch in table st.
Touched(st, r) ==
    {PrimaryOf(c) : c \in {d \in Live(st) : MatchWhere(d, r.email, r.phoneNumber)}}

\* The rows joined to row i by linkedId, in either direction, in any number
\* of steps.
RECURSIVE Closure(_, _)
Closure(st, ids) ==
    LET more == ids \cup {j \in 1..Len(st) :
                    \E i \in ids : st[i].linkedId = j \/ st[j].linkedId = i}
    IN  IF more = ids THEN ids ELSE Closure(st, more)

Component(st, i) == Closure(st, {i})

OnePrimaryPerComponent(st) ==
    \A i \in 1..Len(st) :
        Cardinality({j \in Component(st, i) :
                        IsPrimary(st[j]) /\ ~st[j].deletedAt}) = 1

\* st is tbl with the rows of tbl unchanged and exactly one row added.
OneRowAdded(tbl, st) ==
    /\ Len(st) = Len(tbl) + 1
    /\ \A i \in 1..Len(tbl) : st[i] = tbl[i]

NoDuplicates(s) == \A i, j \in 1..Len(s) : i # j => s[i] # s[j]

\* C1: after every request of a serial run, each connected component of
\* the link relation holds exactly one live primary contact.
C1_OnePrimaryPerComponent == AllResting => OnePrimaryPerComponent(store)

\* A merge has just completed: two primaries before, one component after.
C1_Witness ==
    /\ Returned(1)
    /\ Cardinality({c \in Rows(store0[1]) : IsPrimary(c)}) = 2
    /\ Cardinality({c \in Rows(store) : IsPrimary(c)}) = 1
    /\ Len(store) = 3

\* C2: after every request of a serial run, every secondary's linkedId is
\* the id of a live primary, and no linkedId names a secondary.
C2_LinksReachPrimaries ==
    AllResting =>
        \A c \in Rows(store) :
            /\ IsSecondary(c) =>
                  /\ c.linkedId \in 1..Len(store)
                  /\ IsPrimary(store[c.linkedId])
                  /\ ~store[c.linkedId].deletedAt
            /\ c.linkedId # NoLink =>
                  /\ c.linkedId \in 1..Len(store)
                  /\ ~IsSecondary(store[c.linkedId])

\* A merge has just demoted a primary that had a secondary of its own.
C2_Witness ==
    /\ Returned(1)
    /\ \E b, c \in Rows(store0[1]) :
          /\ IsPrimary(b) /\ c.linkedId = b.id
          /\ IsSecondary(store[b.id])
          /\ store[c.id].linkedId = store[b.id].linkedId

\* C3: a request that touches two or more families leaves the oldest of
\* their primaries primary, makes every other one a secondary of it,
\* repoints their secondaries to it, and answers with the survivor's id and
\* with every other member of the touched families as a secondary.
C3_MergeCorrect ==
    \A p \in SerialProcs :
        (Returned(p) /\ Cardinality(Touched(store0[p], req[p])) >= 2) =>
            LET t == Touched(store0[p], req[p])
                s == response[p].primaryContactId
            IN  /\ s \in t
                /\ \A r \in t : store0[p][s].createdAt <= store0[p][r].createdAt
                /\ IsPrimary(store[s]) /\ store[s].linkedId = NoLink
                /\ \A r \in t \ {s} :
                      /\ IsSecondary(store[r]) /\ store[r].linkedId = s
                      /\ \A c \in FamilyRows(store0[p], r) : store[c.id].linkedId = s
                /\ \A r \in t : \A c \in FamilyRows(store0[p], r) :
                      c.id # s => c.id \in Range(response[p].secondaryContactIds)

\* A merge whose demoted primary had a secondary has returned.
C3_Witness ==
    /\ Returned(1)
    /\ Cardinality(Touched(store0[1], req[1])) = 2
    /\ \E r \in Touched(store0[1], req[1]) :
          /\ r # response[1].primaryContactId
          /\ Cardinality(FamilyRows(store0[1], r)) = 2

\* Some live row of st carries exactly the pair of request r.
ExactPairs(st, r) ==
    {c \in Live(st) : c.email = Stored(r.email) /\ c.phoneNumber = Stored(r.phoneNumber)}

\* C4: a request whose exact (email, phone) pair is already on a contact
\* creates nothing, changes nothing, and answers with that contact's
\* primary, the same as the identical request just before it.
C4_Idempotent ==
    \A p \in SerialProcs :
        (Resting(p) /\ pc[p] # "idle" /\ ExactPairs(store0[p], req[p]) # {}) =>
            /\ Returned(p)
            /\ store = store0[p]
            /\ \A c \in ExactPairs(store0[p], req[p]) :
                  response[p].primaryContactId = PrimaryOf(c)
            /\ prev[p] # NoResponse =>
                  response[p].primaryContactId = prev[p].primaryContactId

\* The identical request was repeated; the pair sits on a secondary.
C4_Witness ==
    /\ Returned(1)
    /\ prev[1] # NoResponse
    /\ \E c \in ExactPairs(store0[1], req[1]) : IsSecondary(c)

\* A request carrying one identifier only.
SingleIdentifier(r) == Truthy(r.email) # Truthy(r.phoneNumber)

\* C5: a request carrying a single identifier found on any member of a
\* family answers with that family's primary.
C5_SingleIdentifierFindsPrimary ==
    \A p \in SerialProcs :
        (Resting(p) /\ pc[p] # "idle" /\ SingleIdentifier(req[p])) =>
            \A c \in Live(store0[p]) :
                MatchWhere(c, req[p].email, req[p].phoneNumber) =>
                    /\ Returned(p)
                    /\ response[p].primaryContactId = PrimaryOf(c)
                    /\ IsPrimary(store[PrimaryOf(c)])

\* The single identifier is carried by a secondary only.
C5_Witness ==
    /\ Returned(1)
    /\ SingleIdentifier(req[1])
    /\ \E c \in Live(store0[1]) : MatchWhere(c, req[1].email, req[1].phoneNumber)
    /\ \A c \in Live(store0[1]) :
          MatchWhere(c, req[1].email, req[1].phoneNumber) => IsSecondary(c)

\* C6: a request none of whose identifiers is on a live contact creates
\* exactly one contact, a primary with the supplied fields and no link,
\* changes no other row, and answers with its id and no secondaries.
C6_NoMatchCreatesPrimary ==
    \A p \in SerialProcs :
        (Resting(p) /\ pc[p] # "idle" /\ Touched(store0[p], req[p]) = {}) =>
            IF Len(store0[p]) >= MaxContacts
            THEN pc[p] = "failed" /\ store = store0[p]
            ELSE /\ Returned(p)
                 /\ OneRowAdded(store0[p], store)
                 /\ LET new == store[Len(store)]
                    IN  /\ new.id = Len(store)
                        /\ new.email = Stored(req[p].email)
                        /\ new.phoneNumber = Stored(req[p].phoneNumber)
                        /\ IsPrimary(new) /\ new.linkedId = NoLink
                        /\ ~new.deletedAt
                        /\ response[p].primaryContactId = new.id
                        /\ response[p].secondaryContactIds = <<>>

\* A new primary was created beside an existing one.
C6_Witness ==
    /\ Returned(1)
    /\ Touched(store0[1], req[1]) = {}
    /\ Len(store0[1]) >= 1
    /\ Truthy(req[1].email) /\ Truthy(req[1].phoneNumber)

\* The values of a field over the family of primary r.
FamilyValues(st, r, field) == {c[field] : c \in FamilyRows(st, r)}

\* The request brings an email or a phone its one family does not have.
BringsNews(st, r) ==
    /\ Cardinality(Touched(st, r)) = 1
    /\ \E f \in Touched(st, r) :
          \/ Truthy(r.email) /\ r.email \notin FamilyValues(st, f, "email")
          \/ Truthy(r.phoneNumber) /\ r.phoneNumber \notin FamilyValues(st, f, "phoneNumber")

\* C7: a request that resolves to one primary and brings a new email or
\* phone inserts exactly one secondary with the supplied fields, linked to
\* that primary, changes no other row, and answers with the new id last
\* among the secondaries and with the new values listed.
C7_ExtendsOneFamily ==
    \A p \in SerialProcs :
        (Returned(p) /\ BringsNews(store0[p], req[p])) =>
            /\ OneRowAdded(store0[p], store)
            /\ LET new == store[Len(store)]
                   ids == response[p].secondaryContactIds
               IN  /\ new.email = Stored(req[p].email)
                   /\ new.phoneNumber = Stored(req[p].phoneNumber)
                   /\ IsSecondary(new)
                   /\ Touched(store0[p], req[p]) = {new.linkedId}
                   /\ response[p].primaryContactId = new.linkedId
                   /\ ids # <<>> /\ ids[Len(ids)] = new.id
                   /\ Truthy(req[p].email) => req[p].email \in Range(response[p].emails)
                   /\ Truthy(req[p].phoneNumber) =>
                         req[p].phoneNumber \in Range(response[p].phoneNumbers)

\* A second secondary was added to a family, matched through its first.
C7_Witness ==
    /\ Returned(1)
    /\ BringsNews(store0[1], req[1])
    /\ Len(store0[1]) = 2
    /\ Len(response[1].secondaryContactIds) = 2
    /\ IsSecondary(store0[1][2])

\* The earliest createdAt among the secondaries of family r that carry v.
FirstCarried(st, r, field, v) ==
    LET ts == {c.createdAt : c \in {d \in FamilyRows(st, r) :
                                      IsSecondary(d) /\ d[field] = v}}
    IN  CHOOSE t \in ts : \A u \in ts : t <= u

\* The list of values of a field a response may give for family r.
WellListed(st, r, field, list) ==
    LET own == st[r][field]
        rest == IF Truthy(own) THEN Tail(list) ELSE list
    IN  /\ NoDuplicates(list)
        /\ \A i \in 1..Len(list) : Truthy(list[i])
        /\ Truthy(own) => list # <<>> /\ list[1] = own
        /\ Range(list) = {v \in FamilyValues(st, r, field) : Truthy(v)}
        /\ \A i, j \in 1..Len(rest) :
              i < j => FirstCarried(st, r, field, rest[i])
                          <= FirstCarried(st, r, field, rest[j])

\* C8: the emails and phoneNumbers of every response hold each value of
\* the family once, no null, the primary's own value first, the others in
\* the createdAt order of the secondaries that carry them.
C8_ListsWellFormed ==
    \A p \in SerialProcs :
        Returned(p) =>
            /\ WellListed(store, response[p].primaryContactId, "email",
                          response[p].emails)
            /\ WellListed(store, response[p].primaryContactId, "phoneNumber",
                          response[p].phoneNumbers)

\* The primary has no email and two secondaries bring one each; one of
\* them repeats the phone of the primary.
C8_Witness ==
    /\ Returned(1)
    /\ store[response[1].primaryContactId].email = Null
    /\ Len(response[1].emails) = 2
    /\ Len(response[1].phoneNumbers) = 1

\* No identifier is the email or the phone of two live primaries.
NoDuplicatePrimary(st) ==
    \A c, d \in Live(st) :
        (IsPrimary(c) /\ IsPrimary(d) /\ c.id # d.id) =>
            /\ ~(Truthy(c.email) /\ c.email = d.email)
            /\ ~(Truthy(c.phoneNumber) /\ c.phoneNumber = d.phoneNumber)

\* C9: when requests interleave, once all have completed each component
\* has one primary and no identifier has two primaries.
C9_IsolatedRequests ==
    AllResting => OnePrimaryPerComponent(store) /\ NoDuplicatePrimary(store)

\* The rows one findMany returned show a contact linked to a secondary.
ShowsPartialMerge(rows) ==
    \E i, j \in 1..Len(rows) :
        rows[i].linkedId = rows[j].id /\ IsSecondary(rows[j])

\* C10: no read of a request returns rows of a half-applied merge: a
\* demoted primary together with a contact still linked to it.
C10_MergeAtomic ==
    \A p \in Procs :
        (pc[p] = "expand" /\ processed[p] = {}) => ~ShowsPartialMerge(toProcess[p])

\* The rows carrying the pair of request r that table st holds and table
\* tbl did not.
NewExactPairs(tbl, st, r) == {c \in ExactPairs(st, r) : c.id > Len(tbl)}

\* C11: two overlapping requests with the same email and phone that both
\* resolve to the same single family add at most one contact carrying
\* that pair between them.
C11_OneSecondaryPerPair ==
    (/\ Returned(1) /\ Returned(2)
     /\ req[1] = req[2]
     /\ store0[1] = store0[2]
     /\ Cardinality(Touched(store0[1], req[1])) = 1)
        => Cardinality(NewExactPairs(store0[1], store, req[1])) <= 1

\* C12: a request that fails at a store operation leaves the table as it
\* was when the request began.
C12_FailureLeavesNoWrite ==
    \A p \in SerialProcs : pc[p] = "failed" => store = store0[p]

\* A live row matching request r in table st is linked to an id that is
\* not the id of a live primary.
Orphaned(st, r) ==
    \E c \in Live(st) :
        /\ MatchWhere(c, r.email, r.phoneNumber)
        /\ c.linkedId # NoLink
        /\ ~\E d \in Live(st) : d.id = c.linkedId /\ IsPrimary(d)

\* C13: a request that meets a contact whose linkedId does not resolve to
\* a live primary fails with an error and writes nothing.
C13_InconsistentDataFails ==
    \A p \in SerialProcs :
        (Resting(p) /\ pc[p] # "idle" /\ Orphaned(store0[p], req[p])) =>
            pc[p] = "failed" /\ store = store0[p]

\* c comes before d by createdAt, then by id.
Before(c, d) ==
    \/ c.createdAt < d.createdAt
    \/ c.createdAt = d.createdAt /\ c.id < d.id

\* C14: the primaries of a merge are listed by createdAt and then id, and
\* the survivor is the first of them by that order, whatever order the
\* store returned rows of equal createdAt in.
C14_SurvivorTieBreak ==
    \A p \in SerialProcs :
        pc[p] = "demote" =>
            /\ \A i, j \in 1..Len(primaries[p]) :
                  i < j => Before(primaries[p][i], primaries[p][j])
            /\ \A i \in 1..Len(primaries[p]) :
                  \/ primaries[p][i].id = oldestPrimary[p].id
                  \/ Before(oldestPrimary[p], primaries[p][i])

\* The emails and the phone numbers of the members of a family.
EmailsOf(fam) == {fam[i].email : i \in 1..Len(fam)}
PhonesOf(fam) == {fam[i].phoneNumber : i \in 1..Len(fam)}

\* The decision the rule of the specification gives: no new secondary
\* when a member carries exactly the request's pair, an absent field being
\* the member's null; otherwise one when a supplied value is on no member.
DecisionTable(fam, email, phoneNumber) ==
    IF \E i \in 1..Len(fam) :
          fam[i].email = Stored(email) /\ fam[i].phoneNumber = Stored(phoneNumber)
    THEN FALSE
    ELSE IF Truthy(email) /\ Truthy(phoneNumber)
    THEN email \notin EmailsOf(fam) \/ phoneNumber \notin PhonesOf(fam)
    ELSE IF Truthy(email) THEN email \notin EmailsOf(fam)
    ELSE IF Truthy(phoneNumber) THEN phoneNumber \notin PhonesOf(fam)
    ELSE FALSE

\* C15: for every family and every request with a supplied identifier,
\* shouldCreateSecondary returns what the decision rule gives.
C15_DecisionTable ==
    \A p \in SerialProcs :
        pc[p] = "decided" =>
            response[p].needsNewSecondary =
                DecisionTable(family[p], req[p].email, req[p].phoneNumber)

\* Both supplied values are in the family, on different members only, and
\* no secondary is asked for.
C15_Witness ==
    /\ pc[1] = "decided"
    /\ Truthy(req[1].email) /\ Truthy(req[1].phoneNumber)
    /\ req[1].email \in EmailsOf(family[1])
    /\ req[1].phoneNumber \in PhonesOf(family[1])
    /\ \A i \in 1..Len(family[1]) :
          ~(family[1][i].email = req[1].email
            /\ family[1][i].phoneNumber = req[1].phoneNumber)
    /\ response[1].needsNewSecondary = FALSE

\* The members of the families the request of slot p touches.
TouchedRows(p) == UNION {FamilyRows(store, r) : r \in Touched(store, req[p])}

\* C16: on a table of flat families, whatever the order of the seeds, the
\* traversal collects exactly the members of the families the seeds
\* belong to, and the list fetched from them names each once.
C16_WholeFamilies ==
    \A p \in SerialProcs :
        /\ pc[p] = "fetch" =>
              {c \in Live(store) : c.id \in contactIds[p]} = TouchedRows(p)
        /\ pc[p] \in {"createSecondary", "demote"} =>
              /\ Range(allRelatedContacts[p]) = TouchedRows(p)
              /\ NoDuplicates(allRelatedContacts[p])

\* Two families were touched through secondaries; a third row was not.
C16_Witness ==
    /\ pc[1] = "demote"
    /\ Len(store) = 3
    /\ Cardinality(Touched(store, req[1])) = 2
    /\ Len(allRelatedContacts[1]) = 3
    /\ \E c \in Live(store) :
          IsSecondary(c) /\ MatchWhere(c, req[1].email, req[1].phoneNumber)
    /\ \E c \in Live(store) : ~MatchWhere(c, req[1].email, req[1].phoneNumber)

\* C17: no read of a request returns a soft-deleted contact: none is put
\* on the work stack, processed or collected by the traversal, the lookup
\* of a secondary's primary included.
C17_TombstonesUnseen ==
    \A p \in SerialProcs :
        \A i \in 1..Len(store) :
            store[i].deletedAt =>
                /\ i \notin processed[p]
                /\ i \notin contactIds[p]
                /\ \A k \in 1..Len(toProcess[p]) : toProcess[p][k].id # i

\* One iteration of the traversal of slot p: it either drops a contact
\* that was processed before, looking nothing up and pushing nothing, or
\* processes one contact that was not.  The pair (ids not processed,
\* length of the stack) falls with every iteration, so the loop ends.
IterationProgresses(p) ==
    LET contact == toProcess[p][Len(toProcess[p])]
        rest == SubSeq(toProcess[p], 1, Len(toProcess[p]) - 1)
    IN  IF contact.id \in processed[p]
        THEN /\ processed'[p] = processed[p]
             /\ contactIds'[p] = contactIds[p]
             /\ toProcess'[p] = rest
        ELSE /\ processed'[p] = processed[p] \cup {contact.id}
             /\ \A k \in 1..Len(toProcess'[p]) :
                   k > Len(rest) => toProcess'[p][k].id \notin processed'[p]

\* C18: on any table, cyclic, self-linked or chained links included, every
\* iteration of the traversal makes progress, so the loop terminates, and
\* no contact id is processed a second time.
C18_TraversalTerminates ==
    [][\A p \in SerialProcs : pc[p] = "expand" => IterationProgresses(p)]_vars

\* The traversal has ended on a table with a two-row cycle and a
\* self-linked row, all three processed.
C18_Witness ==
    /\ pc[1] = "fetch"
    /\ processed[1] = {1, 2, 3}
    /\ \E i, j, k \in 1..Len(store) :
          /\ i # j /\ store[i].linkedId = j /\ store[j].linkedId = i
          /\ store[k].linkedId = k

\* C19: after every request of a serial run, two live contacts with the
\* same non-null email or the same non-null phone number are in the same
\* family.
C19_IdentifierInOneFamily ==
    AllResting =>
        \A c, d \in Live(store) :
            (\/ c.email # Null /\ c.email = d.email
             \/ c.phoneNumber # Null /\ c.phoneNumber = d.phoneNumber)
                => PrimaryOf(c) = PrimaryOf(d)

DistinctCreatedAt(st, r) ==
    \A c, d \in FamilyRows(st, r) : c.id # d.id => c.createdAt # d.createdAt

\* Responses a and b name the same primary and list the same values, in
\* lists of the same length.
SameContact(a, b) ==
    /\ a.primaryContactId = b.primaryContactId
    /\ Len(a.emails) = Len(b.emails)
    /\ Range(a.emails) = Range(b.emails)
    /\ Len(a.phoneNumbers) = Len(b.phoneNumbers)
    /\ Range(a.phoneNumbers) = Range(b.phoneNumbers)
    /\ Len(a.secondaryContactIds) = Len(b.secondaryContactIds)
    /\ Range(a.secondaryContactIds) = Range(b.secondaryContactIds)

====
